---- MODULE Spec2Model ----
(***************************************************************************)
(* Contacts Manager API: the request-scoped database session               *)
(* (src/database/db.py), the health-check endpoint (src/api/utils.py),     *)
(* the error-raising helpers (src/utils/errors.py) and the three global    *)
(* exception handlers of the application (src/main.py).                    *)
(*                                                                         *)
(* Every request is a small process: it arrives, borrows a session from    *)
(* the shared DatabaseSessionManager through get_db, runs its route        *)
(* handler, leaves the session scope (except / finally of session()), and  *)
(* is answered either with the handler's return value or by the exception  *)
(* handler registered for the class of the exception that escaped.         *)
(*                                                                         *)
(* Standing assumption about the ORM: session.rollback() and               *)
(* session.close() return normally.                                        *)
(***************************************************************************)
EXTENDS Integers, Sequences, FiniteSets, TLC

VARIABLES
    DEBUG,      \* config.DEBUG, read once at start-up
    manager,    \* session_manager: [engine, session_maker]
    sessions,   \* every session made so far, by identity
    pc,         \* where each request is
    request,    \* the inbound request: [route, x_debug]
    sess,       \* the session get_db handed to the request (0: none)
    scalar,     \* what SELECT 1 gave: "unset", "one", "null" or "raised"
    dbErr,      \* the error the request's database operation raised (or NoExc)
    bodyExc,    \* the exception leaving the body of the session scope
    scopeExc,   \* the exception leaving the session scope (reaching the app)
    retval,     \* the route handler's return value
    response,   \* the response sent
    handledBy   \* the exception handlers that rendered the request

vars == <<DEBUG, manager, sessions, pc, request, sess, scalar, dbErr, bodyExc,
          scopeExc, retval, response, handledBy>>

\* Number of requests in flight together.
NumReq == 2

Reqs == 1..NumReq

-----------------------------------------------------------------------------
(* JSON / Python values, tagged by type *)

JNull == [t |-> "null", v |-> 0]
JStr(s) == [t |-> "str", v |-> s]
JInt(n) == [t |-> "int", v |-> n]
JObj(f) == [t |-> "obj", v |-> f]
JList(q) == [t |-> "list", v |-> q]

\* str(value)
PyStr(x) == IF x.t = "int" THEN ToString(x.v) ELSE x.v

Range(q) == {q[i] : i \in DOMAIN q}

-----------------------------------------------------------------------------
(* Constants and status codes *)

MESSAGE_ERROR_INTERNAL_SERVER_ERROR == "Internal Server Error"

\* The two templates src/utils/errors.py imports; a template is the sequence
\* of its literal parts and replacement fields.
MESSAGE_RESOURCE_NOT_FOUND ==
    <<"{resource}", " with ", "{key}", " '", "{value}", "' not found">>

MESSAGE_RESOURCE_ALREADY_EXISTS ==
    <<"{resource}", " with ", "{key}", " '", "{value}", "' already exists">>

HTTP_200_OK == 200
HTTP_404_NOT_FOUND == 404
HTTP_409_CONFLICT == 409
HTTP_422_UNPROCESSABLE_ENTITY == 422
HTTP_500_INTERNAL_SERVER_ERROR == 500

\* message_template.format(resource=resource, key=key, value=value)
RECURSIVE Format(_, _, _, _)
Format(template, resource, key, value) ==
    IF template = <<>> THEN ""
    ELSE LET part == Head(template)
             text == CASE part = "{resource}" -> PyStr(resource)
                       [] part = "{key}"      -> PyStr(key)
                       [] part = "{value}"    -> PyStr(value)
                       [] OTHER               -> part
         IN  text \o Format(Tail(template), resource, key, value)

-----------------------------------------------------------------------------
(* Exceptions *)

Exc(cls, status_code, detail, errors, text) ==
    [cls |-> cls, status_code |-> status_code, detail |-> detail,
     errors |-> errors, text |-> text]

NoExc == Exc("None", 0, JNull, JNull, "")

\* type(exc).__mro__, up to Exception
Mro(cls) ==
    CASE cls = "HTTPException" ->
             <<"HTTPException", "StarletteHTTPException", "Exception">>
      [] cls = "StarletteHTTPException" ->
             <<"StarletteHTTPException", "Exception">>
      [] cls = "RequestValidationError" ->
             <<"RequestValidationError", "Exception">>
      [] cls = "OperationalError" ->
             <<"OperationalError", "SQLAlchemyError", "Exception">>
      [] cls = "SQLAlchemyError" -> <<"SQLAlchemyError", "Exception">>
      [] cls = "RuntimeError" -> <<"RuntimeError", "Exception">>
      [] cls = "OSError" -> <<"OSError", "Exception">>
      [] cls = "ValueError" -> <<"ValueError", "Exception">>
      [] OTHER -> <<>>

IsInstance(exc, cls) == cls \in Range(Mro(exc.cls))

HTTPException(status_code, detail) ==
    Exc("HTTPException", status_code, detail, JNull, "")

-----------------------------------------------------------------------------
(* src/utils/errors.py *)

raise_http_error(status_code, message_template, resource, key, value) ==
    LET error_payload ==
            [detail |-> JStr(Format(message_template, resource, key, value)),
             resource |-> resource,
             key |-> key,
             value |-> value]
    IN  HTTPException(status_code, JObj(error_payload))

raise_http_404_not_found(resource, key, value) ==
    raise_http_error(HTTP_404_NOT_FOUND, MESSAGE_RESOURCE_NOT_FOUND,
                     resource, key, value)

raise_http_409_conflict(resource, key, value) ==
    raise_http_error(HTTP_409_CONFLICT, MESSAGE_RESOURCE_ALREADY_EXISTS,
                     resource, key, value)

raise_http_500(detail) ==
    HTTPException(HTTP_500_INTERNAL_SERVER_ERROR, JObj([detail |-> JStr(detail)]))

-----------------------------------------------------------------------------
(* src/main.py: the exception handlers *)

JSONResponse(status_code, content) ==
    [status_code |-> status_code, content |-> content]

NoResponse == JSONResponse(0, JNull)

validation_exception_handler(req, exc) ==
    JSONResponse(HTTP_422_UNPROCESSABLE_ENTITY, JObj([detail |-> exc.errors]))

http_exception_handler(req, exc) ==
    JSONResponse(exc.status_code, JObj([detail |-> exc.detail]))

\* traceback.format_exc()
FormatExc(exc) == "Traceback (most recent call last): " \o exc.cls \o ": " \o exc.text

\* Mutant: the rich body is also given to a request that asks for it.
handle_global_exception_by_request(req, exc) ==
    IF DEBUG \/ req.x_debug
    THEN JSONResponse(
             HTTP_500_INTERNAL_SERVER_ERROR,
             JObj([detail |-> JStr("Unhandled exceptions caused "
                                   \o MESSAGE_ERROR_INTERNAL_SERVER_ERROR),
                   error |-> JStr(exc.text),
                   traceback |-> JStr(FormatExc(exc))]))
    ELSE JSONResponse(
             HTTP_500_INTERNAL_SERVER_ERROR,
             JObj([detail |-> JStr(MESSAGE_ERROR_INTERNAL_SERVER_ERROR)]))

handle_global_exception(req, exc) ==
    IF DEBUG
    THEN JSONResponse(
             HTTP_500_INTERNAL_SERVER_ERROR,
             JObj([detail |-> JStr("Unhandled exceptions caused "
                                   \o MESSAGE_ERROR_INTERNAL_SERVER_ERROR),
                   error |-> JStr(exc.text),
                   traceback |-> JStr(FormatExc(exc))]))
    ELSE JSONResponse(
             HTTP_500_INTERNAL_SERVER_ERROR,
             JObj([detail |-> JStr(MESSAGE_ERROR_INTERNAL_SERVER_ERROR)]))

\* The classes app.exception_handler registers a handler for.
ExceptionHandlers ==
    {"RequestValidationError", "StarletteHTTPException", "Exception"}

\* The handler of the first class of the exception's MRO that has one.
RECURSIVE FirstRegistered(_)
FirstRegistered(mro) ==
    IF mro = <<>> THEN "None"
    ELSE IF Head(mro) \in ExceptionHandlers THEN Head(mro)
    ELSE FirstRegistered(Tail(mro))

\* Mutant: the handler is looked up by the exception's own class only.
LookupHandler_exact_class(exc) ==
    IF exc.cls \in ExceptionHandlers THEN exc.cls ELSE "Exception"

LookupHandler(exc) == FirstRegistered(Mro(exc.cls))

-----------------------------------------------------------------------------
(* Inputs *)

Routes == {"health", "contacts", "unknown"}

\* What the database does with SELECT 1.
DbOutcomes == {"one", "null", "sqlerr", "oserr"}

\* What the contacts router does with a request.
ContactOutcomes == {"ok", "invalid", "404", "409", "sqlerr", "fault"}

\* (resource, key, value) triples handed to the not-found / conflict helpers.
Lookups ==
    { <<JStr("Contact"), JStr("id"), JInt(42)>> }

ConnectionRefused ==
    Exc("OperationalError", 0, JNull, JNull, "connection refused")

DriverFault == Exc("OSError", 0, JNull, JNull, "socket closed")

HandlerFault == Exc("ValueError", 0, JNull, JNull, "bad value")

RouteNotFound ==
    Exc("StarletteHTTPException", HTTP_404_NOT_FOUND, JStr("Not Found"), JNull, "")

InvalidBody ==
    Exc("RequestValidationError", 0, JNull,
        JList(<<JObj([loc |-> JStr("body.email"),
                      msg |-> JStr("value is not a valid email address")])>>),
        "")

-----------------------------------------------------------------------------
(* State *)

Init ==
    /\ DEBUG \in BOOLEAN
    /\ manager = [engine |-> "engine", session_maker |-> "session_maker"]
    /\ sessions = [x \in {} |-> 0]
    /\ pc = [r \in Reqs |-> "new"]
    /\ request = [r \in Reqs |-> [route |-> "none", x_debug |-> FALSE]]
    /\ sess = [r \in Reqs |-> 0]
    /\ scalar = [r \in Reqs |-> "unset"]
    /\ dbErr = [r \in Reqs |-> NoExc]
    /\ bodyExc = [r \in Reqs |-> NoExc]
    /\ scopeExc = [r \in Reqs |-> NoExc]
    /\ retval = [r \in Reqs |-> JNull]
    /\ response = [r \in Reqs |-> NoResponse]
    /\ handledBy = [r \in Reqs |-> <<>>]

\* self._session_maker() makes a new session object each time it is called;
\* a request calls it at most once, and the object is named after the call.
NewSession(r) == r

\* session.execute / session.rollback / session.close on the session s, by r
SessionOp(s, op, r) ==
    [sessions EXCEPT ![s].log = Append(@, [op |-> op, by |-> r]),
                     ![s].state = IF op = "close" THEN "closed" ELSE @]

\* A request enters the application; an unknown path is answered by the
\* router with an HTTP 404 failure, before any dependency runs.
Arrive(r) ==
    /\ pc[r] = "new"
    /\ \E route \in Routes, x_debug \in BOOLEAN :
          /\ request' = [request EXCEPT ![r] = [route |-> route, x_debug |-> x_debug]]
          /\ IF route = "unknown"
             THEN /\ scopeExc' = [scopeExc EXCEPT ![r] = RouteNotFound]
                  /\ pc' = [pc EXCEPT ![r] = "respond"]
             ELSE /\ scopeExc' = scopeExc
                  /\ pc' = [pc EXCEPT ![r] = "get_db"]
    /\ UNCHANGED <<DEBUG, manager, sessions, sess, scalar, dbErr, bodyExc,
                   retval, response, handledBy>>

\* Mutant: one session is made and handed to every caller.
get_db_shared(r) ==
    /\ pc[r] = "get_db"
    /\ IF DOMAIN sessions = {}
       THEN /\ sessions' = (NewSession(r) :>
                               [owner |-> r, state |-> "open", log |-> <<>>])
            /\ sess' = [sess EXCEPT ![r] = NewSession(r)]
       ELSE /\ sess' = [sess EXCEPT ![r] = CHOOSE x \in DOMAIN sessions : TRUE]
            /\ UNCHANGED sessions
    /\ pc' = [pc EXCEPT ![r] = "handler"]
    /\ UNCHANGED <<DEBUG, manager, request, scalar, dbErr, bodyExc, scopeExc,
                   retval, response, handledBy>>

\* Mutant: the session factory is called without the check that it is set.
get_db_unchecked(r) ==
    /\ pc[r] = "get_db"
    /\ IF manager.session_maker = "None"
       THEN /\ scopeExc' = [scopeExc EXCEPT ![r] =
                   Exc("TypeError", 0, JNull, JNull,
                       "'NoneType' object is not callable")]
            /\ pc' = [pc EXCEPT ![r] = "respond"]
            /\ UNCHANGED <<sessions, sess>>
       ELSE /\ sessions' = sessions @@ (NewSession(r) :>
                                  [owner |-> r, state |-> "open", log |-> <<>>])
            /\ sess' = [sess EXCEPT ![r] = NewSession(r)]
            /\ pc' = [pc EXCEPT ![r] = "handler"]
            /\ UNCHANGED scopeExc
    /\ UNCHANGED <<DEBUG, manager, request, scalar, dbErr, bodyExc, retval,
                   response, handledBy>>

\* get_db entering session_manager.session(), up to the yield.
get_db(r) ==
    /\ pc[r] = "get_db"
    /\ IF manager.session_maker = "None"
       THEN /\ scopeExc' = [scopeExc EXCEPT ![r] =
                   Exc("RuntimeError", 0, JNull, JNull,
                       "Database session is not initialized")]
            /\ pc' = [pc EXCEPT ![r] = "respond"]
            /\ UNCHANGED <<sessions, sess>>
       ELSE /\ sessions' = sessions @@ (NewSession(r) :>
                                  [owner |-> r, state |-> "open", log |-> <<>>])
            /\ sess' = [sess EXCEPT ![r] = NewSession(r)]
            /\ pc' = [pc EXCEPT ![r] = "handler"]
            /\ UNCHANGED scopeExc
    /\ UNCHANGED <<DEBUG, manager, request, scalar, dbErr, bodyExc, retval,
                   response, handledBy>>

\* Mutant: the null-scalar branch logs and falls through to the success return.
check_app_health_fallthrough(r) ==
    /\ pc[r] = "handler"
    /\ request[r].route = "health"
    /\ sessions' = SessionOp(sess[r], "execute", r)
    /\ \E out \in DbOutcomes :
       /\ scalar' = [scalar EXCEPT ![r] =
              IF out \in {"one", "null"} THEN out ELSE "raised"]
       /\ CASE out \in {"one", "null"} ->
                     /\ retval' = [retval EXCEPT ![r] = JObj([status |-> JStr("ok")])]
                     /\ UNCHANGED <<dbErr, bodyExc>>
              [] out = "sqlerr" ->
                     /\ dbErr' = [dbErr EXCEPT ![r] = ConnectionRefused]
                     /\ bodyExc' = [bodyExc EXCEPT ![r] =
                            raise_http_500("Error connecting to the database")]
                     /\ UNCHANGED retval
              [] out = "oserr" ->
                     /\ dbErr' = [dbErr EXCEPT ![r] = DriverFault]
                     /\ bodyExc' = [bodyExc EXCEPT ![r] = DriverFault]
                     /\ UNCHANGED retval
    /\ pc' = [pc EXCEPT ![r] = "exit"]
    /\ UNCHANGED <<DEBUG, manager, request, sess, scopeExc, response, handledBy>>

\* GET /api/healthchecker
check_app_health(r) ==
    /\ pc[r] = "handler"
    /\ request[r].route = "health"
    /\ sessions' = SessionOp(sess[r], "execute", r)
    /\ \E out \in DbOutcomes :
       /\ scalar' = [scalar EXCEPT ![r] =
              IF out \in {"one", "null"} THEN out ELSE "raised"]
       /\ CASE out = "one" ->
                     /\ retval' = [retval EXCEPT ![r] = JObj([status |-> JStr("ok")])]
                     /\ UNCHANGED <<dbErr, bodyExc>>
              [] out = "null" ->
                     /\ bodyExc' = [bodyExc EXCEPT ![r] =
                            raise_http_500("Database is not configured correctly")]
                     /\ UNCHANGED <<dbErr, retval>>
              [] out = "sqlerr" ->
                     /\ dbErr' = [dbErr EXCEPT ![r] = ConnectionRefused]
                     /\ bodyExc' = [bodyExc EXCEPT ![r] =
                            raise_http_500("Error connecting to the database")]
                     /\ UNCHANGED retval
              [] out = "oserr" ->
                     /\ dbErr' = [dbErr EXCEPT ![r] = DriverFault]
                     /\ bodyExc' = [bodyExc EXCEPT ![r] = DriverFault]
                     /\ UNCHANGED retval
    /\ pc' = [pc EXCEPT ![r] = "exit"]
    /\ UNCHANGED <<DEBUG, manager, request, sess, scopeExc, response, handledBy>>

\* A route of the contacts router, using the helpers of src/utils/errors.py.
contacts_route(r) ==
    /\ pc[r] = "handler"
    /\ request[r].route = "contacts"
    /\ \E out \in ContactOutcomes, q \in Lookups :
          CASE out = "ok" ->
                   /\ sessions' = SessionOp(sess[r], "execute", r)
                   /\ retval' = [retval EXCEPT ![r] = JObj([id |-> JInt(1)])]
                   /\ UNCHANGED <<dbErr, bodyExc>>
            [] out = "invalid" ->
                   /\ bodyExc' = [bodyExc EXCEPT ![r] = InvalidBody]
                   /\ UNCHANGED <<sessions, dbErr, retval>>
            [] out = "404" ->
                   /\ sessions' = SessionOp(sess[r], "execute", r)
                   /\ bodyExc' = [bodyExc EXCEPT ![r] =
                          raise_http_404_not_found(q[1], q[2], q[3])]
                   /\ UNCHANGED <<dbErr, retval>>
            [] out = "409" ->
                   /\ sessions' = SessionOp(sess[r], "execute", r)
                   /\ bodyExc' = [bodyExc EXCEPT ![r] =
                          raise_http_409_conflict(q[1], q[2], q[3])]
                   /\ UNCHANGED <<dbErr, retval>>
            [] out = "sqlerr" ->
                   /\ sessions' = SessionOp(sess[r], "execute", r)
                   /\ dbErr' = [dbErr EXCEPT ![r] = ConnectionRefused]
                   /\ bodyExc' = [bodyExc EXCEPT ![r] = ConnectionRefused]
                   /\ UNCHANGED retval
            [] out = "fault" ->
                   /\ bodyExc' = [bodyExc EXCEPT ![r] = HandlerFault]
                   /\ UNCHANGED <<sessions, dbErr, retval>>
    /\ pc' = [pc EXCEPT ![r] = "exit"]
    /\ UNCHANGED <<DEBUG, manager, request, sess, scalar, scopeExc, response,
                   handledBy>>

\* Mutant: the except clause re-raises without rolling back.
session_except_no_rollback(r) ==
    /\ pc[r] = "exit"
    /\ IsInstance(bodyExc[r], "SQLAlchemyError")
    /\ pc' = [pc EXCEPT ![r] = "finally"]
    /\ UNCHANGED <<DEBUG, manager, sessions, request, sess, scalar, dbErr,
                   bodyExc, scopeExc, retval, response, handledBy>>

\* Mutant: the except clause catches every exception.
session_except_any_error(r) ==
    /\ pc[r] = "exit"
    /\ bodyExc[r] # NoExc
    /\ sessions' = SessionOp(sess[r], "rollback", r)
    /\ pc' = [pc EXCEPT ![r] = "finally"]
    /\ UNCHANGED <<DEBUG, manager, request, sess, scalar, dbErr, bodyExc,
                   scopeExc, retval, response, handledBy>>

\* session(): except SQLAlchemyError: await session.rollback(); raise
session_except(r) ==
    /\ pc[r] = "exit"
    /\ IsInstance(bodyExc[r], "SQLAlchemyError")
    /\ sessions' = SessionOp(sess[r], "rollback", r)
    /\ pc' = [pc EXCEPT ![r] = "finally"]
    /\ UNCHANGED <<DEBUG, manager, request, sess, scalar, dbErr, bodyExc,
                   scopeExc, retval, response, handledBy>>

\* Mutant: the close follows the yield instead of standing in a finally.
session_finally_close_on_success(r) ==
    /\ \/ pc[r] = "finally"
       \/ pc[r] = "exit" /\ ~IsInstance(bodyExc[r], "SQLAlchemyError")
    /\ sessions' = IF bodyExc[r] = NoExc
                   THEN SessionOp(sess[r], "close", r)
                   ELSE sessions
    /\ scopeExc' = [scopeExc EXCEPT ![r] = bodyExc[r]]
    /\ pc' = [pc EXCEPT ![r] = "respond"]
    /\ UNCHANGED <<DEBUG, manager, request, sess, scalar, dbErr, bodyExc,
                   retval, response, handledBy>>

\* session(): finally: await session.close(); what was raised goes on.
session_finally(r) ==
    /\ \/ pc[r] = "finally"
       \/ pc[r] = "exit" /\ ~IsInstance(bodyExc[r], "SQLAlchemyError")
    /\ sessions' = SessionOp(sess[r], "close", r)
    /\ scopeExc' = [scopeExc EXCEPT ![r] = bodyExc[r]]
    /\ pc' = [pc EXCEPT ![r] = "respond"]
    /\ UNCHANGED <<DEBUG, manager, request, sess, scalar, dbErr, bodyExc,
                   retval, response, handledBy>>

\* No exception: the handler's return value is the response.
SendResult(r) ==
    /\ pc[r] = "respond"
    /\ scopeExc[r] = NoExc
    /\ response' = [response EXCEPT ![r] = JSONResponse(HTTP_200_OK, retval[r])]
    /\ pc' = [pc EXCEPT ![r] = "done"]
    /\ UNCHANGED <<DEBUG, manager, sessions, request, sess, scalar, dbErr,
                   bodyExc, scopeExc, retval, handledBy>>

Handle(r, cls, resp) ==
    /\ pc[r] = "respond"
    /\ scopeExc[r] # NoExc
    /\ LookupHandler(scopeExc[r]) = cls
    /\ response' = [response EXCEPT ![r] = resp]
    /\ handledBy' = [handledBy EXCEPT ![r] = Append(@, cls)]
    /\ pc' = [pc EXCEPT ![r] = "done"]
    /\ UNCHANGED <<DEBUG, manager, sessions, request, sess, scalar, dbErr,
                   bodyExc, scopeExc, retval>>

HandleValidation(r) ==
    Handle(r, "RequestValidationError",
           validation_exception_handler(request[r], scopeExc[r]))

HandleHTTP(r) ==
    Handle(r, "StarletteHTTPException",
           http_exception_handler(request[r], scopeExc[r]))

HandleUnhandled(r) ==
    Handle(r, "Exception", handle_global_exception(request[r], scopeExc[r]))

Next ==
    \E r \in Reqs :
       \/ Arrive(r)
       \/ get_db(r)
       \/ check_app_health(r)
       \/ contacts_route(r)
       \/ session_except(r)
       \/ session_finally(r)
       \/ SendResult(r)
       \/ HandleValidation(r)
       \/ HandleHTTP(r)
       \/ HandleUnhandled(r)

Spec == Init /\ [][Next]_vars

-----------------------------------------------------------------------------
(* Properties *)

\* The operations performed on session s, in order.
Ops(s) == [i \in DOMAIN sessions[s].log |-> sessions[s].log[i].op]

Count(q, x) == Cardinality({i \in DOMAIN q : q[i] = x})

\* Request r has left its session scope.
Left(r) == sess[r] # 0 /\ pc[r] \in {"respond", "done"}

\* The session of r ended <<..., "rollback", "close">>.
RolledBackThenClosed(r) ==
    LET ops == Ops(sess[r])
    IN  /\ Len(ops) >= 2
        /\ ops[Len(ops) - 1] = "rollback"
        /\ ops[Len(ops)] = "close"
        /\ Count(ops, "rollback") = 1

\* C1: a session acquired through session() / get_db is closed exactly once
\* on every exit path of the scope (normal exit, database-layer error, any
\* other error); it is never closed inside the scope, and no request ends
\* with its session open.
C1_ClosedExactlyOnce ==
    \A r \in Reqs :
       sess[r] # 0 =>
          LET s == sess[r]
          IN  IF Left(r)
              THEN /\ Count(Ops(s), "close") = 1
                   /\ Ops(s)[Len(Ops(s))] = "close"
                   /\ sessions[s].state = "closed"
              ELSE /\ Count(Ops(s), "close") = 0
                   /\ sessions[s].state = "open"

\* Both requests are answered, one after a database-layer error left the
\* scope and one after another kind of error did.
C1_Witness ==
    \E r1, r2 \in Reqs :
       /\ pc[r1] = "done" /\ Left(r1)
       /\ IsInstance(bodyExc[r1], "SQLAlchemyError")
       /\ pc[r2] = "done" /\ Left(r2)
       /\ bodyExc[r2] # NoExc
       /\ ~IsInstance(bodyExc[r2], "SQLAlchemyError")

\* C2 as stated: whenever a database operation raised a database-layer error
\* inside the scope, the session is rolled back, then closed, and that same
\* error leaves the scope.
C2_Original ==
    \A r \in Reqs :
       (Left(r) /\ IsInstance(dbErr[r], "SQLAlchemyError")) =>
          /\ RolledBackThenClosed(r)
          /\ scopeExc[r] = dbErr[r]

\* C2, amended: when a database-layer error leaves the body of the scope
\* (it was not caught inside it), the session is rolled back, then closed,
\* and that same error leaves the scope; between the rollback and the close
\* the session is still open.
C2_RollbackCloseReraise ==
    \A r \in Reqs :
       (sess[r] # 0 /\ IsInstance(bodyExc[r], "SQLAlchemyError")) =>
          /\ pc[r] = "finally" =>
                /\ Ops(sess[r])[Len(Ops(sess[r]))] = "rollback"
                /\ sessions[sess[r]].state = "open"
                /\ scopeExc[r] = NoExc
          /\ Left(r) =>
                /\ RolledBackThenClosed(r)
                /\ scopeExc[r] = bodyExc[r]
                /\ scopeExc[r] = dbErr[r]

C2_Witness ==
    \E r \in Reqs :
       /\ pc[r] = "done" /\ Left(r)
       /\ IsInstance(bodyExc[r], "SQLAlchemyError")
       /\ handledBy[r] = <<"Exception">>

HealthOk == JSONResponse(HTTP_200_OK, JObj([status |-> JStr("ok")]))

\* C4: the health endpoint answers 200 {"status": "ok"} if and only if
\* SELECT 1 completed with a non-null scalar; with a null scalar or a
\* database fault the status is 500, never 200.
C4_HealthStatus ==
    \A r \in Reqs :
       (pc[r] = "done" /\ request[r].route = "health" /\ scalar[r] # "unset") =>
          /\ (response[r] = HealthOk) <=> (scalar[r] = "one")
          /\ (response[r].status_code = HTTP_200_OK) <=> (scalar[r] = "one")
          /\ scalar[r] # "one" =>
                response[r].status_code = HTTP_500_INTERNAL_SERVER_ERROR

C4_Witness ==
    \E r1, r2 \in Reqs :
       /\ pc[r1] = "done" /\ request[r1].route = "health" /\ scalar[r1] = "null"
       /\ pc[r2] = "done" /\ request[r2].route = "health" /\ scalar[r2] = "one"

\* C5: for the two failure causes of the health endpoint the rendered
\* response is 500 with a body whose top-level detail is exactly the cause's
\* message, and the two messages are never swapped.
C5_HealthFailureBody ==
    \A r \in Reqs :
       (pc[r] = "done" /\ request[r].route = "health") =>
          /\ scalar[r] = "null" =>
                response[r] =
                   JSONResponse(HTTP_500_INTERNAL_SERVER_ERROR,
                      JObj([detail |-> JStr("Database is not configured correctly")]))
          /\ IsInstance(dbErr[r], "SQLAlchemyError") =>
                response[r] =
                   JSONResponse(HTTP_500_INTERNAL_SERVER_ERROR,
                      JObj([detail |-> JStr("Error connecting to the database")]))

\* C6: every failed request is rendered by exactly one of the three
\* handlers, the most specific one: a validation failure gives 422 with the
\* error list, an HTTP failure gives its own status code and detail, any
\* other fault gives 500; a request waiting for its answer can always be
\* answered, and a request that did not fail is rendered by no handler.
C6_OneHandler ==
    \A r \in Reqs :
       /\ pc[r] = "respond" =>
             ENABLED (\/ SendResult(r) \/ HandleValidation(r)
                      \/ HandleHTTP(r) \/ HandleUnhandled(r))
       /\ pc[r] # "done" => handledBy[r] = <<>> /\ response[r] = NoResponse
       /\ pc[r] = "done" =>
             LET e == scopeExc[r]
             IN  /\ response[r] # NoResponse
                 /\ e = NoExc => handledBy[r] = <<>>
                 /\ e # NoExc => Len(handledBy[r]) = 1
                 /\ IsInstance(e, "RequestValidationError") =>
                       /\ handledBy[r] = <<"RequestValidationError">>
                       /\ response[r] =
                             JSONResponse(HTTP_422_UNPROCESSABLE_ENTITY,
                                          JObj([detail |-> e.errors]))
                 /\ IsInstance(e, "StarletteHTTPException") =>
                       /\ handledBy[r] = <<"StarletteHTTPException">>
                       /\ response[r].status_code = e.status_code
                       /\ response[r].content = JObj([detail |-> e.detail])
                 /\ (/\ e # NoExc
                     /\ ~IsInstance(e, "RequestValidationError")
                     /\ ~IsInstance(e, "StarletteHTTPException")) =>
                       /\ handledBy[r] = <<"Exception">>
                       /\ response[r].status_code = HTTP_500_INTERNAL_SERVER_ERROR

C6_Witness ==
    \E r1, r2 \in Reqs :
       /\ pc[r1] = "done" /\ handledBy[r1] = <<"RequestValidationError">>
       /\ pc[r2] = "done" /\ handledBy[r2] = <<"StarletteHTTPException">>
       /\ scopeExc[r2].cls = "HTTPException"

GenericBody == JObj([detail |-> JStr(MESSAGE_ERROR_INTERNAL_SERVER_ERROR)])

\* C7: an uncaught fault is always answered with status 500; with the debug
\* flag off the body is exactly {"detail": "Internal Server Error"} whatever
\* the fault and the request (any two such answers are identical, with no
\* error or traceback field), and with the flag on the body carries error
\* and traceback whatever the request: only the flag decides.
C7_GenericBody ==
    \A r1, r2 \in Reqs :
       (/\ pc[r1] = "done" /\ handledBy[r1] = <<"Exception">>
        /\ pc[r2] = "done" /\ handledBy[r2] = <<"Exception">>) =>
          /\ response[r1].status_code = HTTP_500_INTERNAL_SERVER_ERROR
          /\ ~DEBUG =>
                /\ response[r1].content = GenericBody
                /\ DOMAIN response[r1].content.v = {"detail"}
                /\ response[r1] = response[r2]
          /\ DEBUG =>
                DOMAIN response[r1].content.v = {"detail", "error", "traceback"}

\* Debug off; two different faults, from requests that differ, are answered.
C7_Witness ==
    /\ ~DEBUG
    /\ \E r1, r2 \in Reqs :
          /\ pc[r1] = "done" /\ handledBy[r1] = <<"Exception">>
          /\ pc[r2] = "done" /\ handledBy[r2] = <<"Exception">>
          /\ scopeExc[r1].cls # scopeExc[r2].cls
          /\ scopeExc[r1].text # scopeExc[r2].text
          /\ request[r1].x_debug /\ ~request[r2].x_debug
          /\ request[r1].route # request[r2].route

\* The request failed through raise_http_404_not_found / raise_http_409_conflict.
RaisedBy404(r) ==
    \E q \in Lookups : scopeExc[r] = raise_http_404_not_found(q[1], q[2], q[3])

RaisedBy409(r) ==
    \E q \in Lookups : scopeExc[r] = raise_http_409_conflict(q[1], q[2], q[3])

\* C8: a not-found / conflict failure raised through the helpers is rendered
\* with status 404 / 409 and a body that has, at its top level, a non-empty
\* string detail and the resource, key and value fields.
C8_StructuredBody ==
    \A r \in Reqs :
       (pc[r] = "done" /\ (RaisedBy404(r) \/ RaisedBy409(r))) =>
          LET body == response[r].content.v
          IN  /\ RaisedBy404(r) => response[r].status_code = HTTP_404_NOT_FOUND
              /\ RaisedBy409(r) => response[r].status_code = HTTP_409_CONFLICT
              /\ DOMAIN body = {"detail", "resource", "key", "value"}
              /\ body.detail.t = "str"
              /\ Len(body.detail.v) > 0

\* The session handles of different requests are different sessions, and a
\* session was only ever operated on by the request it was made for.
Isolated ==
    /\ \A r1, r2 \in Reqs :
          (r1 # r2 /\ sess[r1] # 0 /\ sess[r2] # 0) => sess[r1] # sess[r2]
    /\ \A r \in Reqs :
          sess[r] # 0 => /\ sess[r] \in DOMAIN sessions
                         /\ sessions[sess[r]].owner = r
    /\ \A s \in DOMAIN sessions :
          \A i \in DOMAIN sessions[s].log :
             sessions[s].log[i].by = sessions[s].owner

\* A step changes no session but the one of the request that takes the step,
\* and never the manager.
OthersUntouched ==
    /\ manager' = manager
    /\ \A s \in DOMAIN sessions :
          /\ s \in DOMAIN sessions'
          /\ sessions'[s] # sessions[s] =>
                /\ pc'[sessions[s].owner] # pc[sessions[s].owner]
                /\ \A r \in Reqs \ {sessions[s].owner} : pc'[r] = pc[r]

\* C9: under any interleaving each request has its own session, no session
\* is used, rolled back or closed by another request, a step in one request's
\* scope leaves every other session as it was, and acquiring a session does
\* not modify the manager.
C9_SessionIsolation == [] Isolated /\ [][OthersUntouched]_vars

\* One request's session is rolled back and closed while the other request's
\* session is still open and in use.
C9_Witness ==
    \E r1, r2 \in Reqs :
       /\ r1 # r2 /\ sess[r1] # 0 /\ sess[r2] # 0
       /\ Ops(sess[r1]) = <<"execute", "rollback", "close">>
       /\ sessions[sess[r2]].state = "open"
       /\ Ops(sess[r2]) = <<"execute">>

\* The same system with a manager whose session factory may be unset.
InitUninit ==
    /\ DEBUG \in BOOLEAN
    /\ manager \in [engine : {"engine"}, session_maker : {"session_maker", "None"}]
    /\ sessions = [x \in {} |-> 0]
    /\ pc = [r \in Reqs |-> "new"]
    /\ request = [r \in Reqs |-> [route |-> "none", x_debug |-> FALSE]]
    /\ sess = [r \in Reqs |-> 0]
    /\ scalar = [r \in Reqs |-> "unset"]
    /\ dbErr = [r \in Reqs |-> NoExc]
    /\ bodyExc = [r \in Reqs |-> NoExc]
    /\ scopeExc = [r \in Reqs |-> NoExc]
    /\ retval = [r \in Reqs |-> JNull]
    /\ response = [r \in Reqs |-> NoResponse]
    /\ handledBy = [r \in Reqs |-> <<>>]

SpecUninit == InitUninit /\ [][Next]_vars

\* C10: with the session factory unset, acquiring a session fails with a
\* RuntimeError, which is no database-layer error; no session is made, so
\* nothing is rolled back or closed.
C10_Uninitialized ==
    manager.session_maker = "None" =>
       /\ DOMAIN sessions = {}
       /\ \A r \in Reqs :
             /\ sess[r] = 0
             /\ pc[r] \notin {"handler", "exit", "finally"}
             /\ (pc[r] \in {"respond", "done"} /\ request[r].route # "unknown") =>
                   /\ scopeExc[r].cls = "RuntimeError"
                   /\ ~IsInstance(scopeExc[r], "SQLAlchemyError")
                   /\ scopeExc[r] # ConnectionRefused

C10_Witness ==
    /\ manager.session_maker = "None"
    /\ \E r \in Reqs :
          /\ pc[r] = "done"
          /\ request[r].route = "health"
          /\ scopeExc[r].cls = "RuntimeError"

====
